---- MODULE Spec2Model ----
(***************************************************************************)
(* Model of internal/compat/strconv.go: QuotedPrefix, UnquoteChar, unhex,  *)
(* unquote, contains and index.  Strings are sequences of bytes (0..255).  *)
(* Go's 0-based half-open slices s[i:j] are written Slice(s, i, j).        *)
(***************************************************************************)
EXTENDS Integers, Sequences, FiniteSets, TLC

VARIABLES in0, unescape, quote, pc, in, buf, out, rem, err, value, multibyte, tail

vars == <<in0, unescape, quote, pc, in, buf, out, rem, err, value, multibyte, tail>>

(* ---------------- bytes the source names ---------------- *)
DQ == 34
SQ == 39
BQ == 96
BS == 92
LF == 10
CR == 13

(* ---------------- unicode/utf8 constants ---------------- *)
RuneSelf == 128
RuneError == 65533
MaxRune == 1114111
SurrogateMin == 55296
SurrogateMax == 57343

(* ---------------- bounds of the checked inputs ---------------- *)
MaxLen == 4
MaxUtf8Len == 5
MaxEscLen == 4
MaxFairLen == 5
MaxFairEscLen == 3

(* ---------------- Go slices ---------------- *)
Slice(s, i, j) == SubSeq(s, i + 1, j)

From(s, i) == SubSeq(s, i + 1, Len(s))

(* mutant of index: the last c instead of the first *)
MutIndexLast(s, c) ==
  IF \E i \in 1..Len(s) : s[i] = c
  THEN (CHOOSE i \in 1..Len(s) : s[i] = c /\ \A j \in (i + 1)..Len(s) : s[j] # c) - 1
  ELSE -1

(* strings.IndexByte: 0-based index of the first c in s, or -1 *)
index(s, c) ==
  IF \E i \in 1..Len(s) : s[i] = c
  THEN (CHOOSE i \in 1..Len(s) : s[i] = c /\ \A j \in 1..(i - 1) : s[j] # c) - 1
  ELSE -1

contains(s, c) == index(s, c) # -1

(* ---------------- unicode/utf8 ---------------- *)
IsCont(b) == b >= 128 /\ b <= 191

(* Number of bytes of the well-formed encoding at the head of s, 0 if the   *)
(* head is not a well-formed encoding (utf8 first[] and acceptRanges[]).   *)
EncLen(s) ==
  IF Len(s) = 0 THEN 0
  ELSE LET b0 == s[1] IN
    IF b0 < 128 THEN 1
    ELSE IF b0 < 194 \/ b0 > 244 THEN 0
    ELSE LET sz == IF b0 < 224 THEN 2 ELSE IF b0 < 240 THEN 3 ELSE 4
             lo == IF b0 = 224 THEN 160 ELSE IF b0 = 240 THEN 144 ELSE 128
             hi == IF b0 = 237 THEN 159 ELSE IF b0 = 244 THEN 143 ELSE 191
         IN IF Len(s) < sz THEN 0
            ELSE IF s[2] < lo \/ s[2] > hi THEN 0
            ELSE IF sz >= 3 /\ ~IsCont(s[3]) THEN 0
            ELSE IF sz = 4 /\ ~IsCont(s[4]) THEN 0
            ELSE sz

(* utf8.DecodeRuneInString: <<rune, size>> *)
DecodeRuneInString(s) ==
  LET n == EncLen(s) IN
    IF Len(s) = 0 THEN <<RuneError, 0>>
    ELSE IF n = 0 THEN <<RuneError, 1>>
    ELSE IF n = 1 THEN <<s[1], 1>>
    ELSE IF n = 2 THEN <<(s[1] % 32) * 64 + (s[2] % 64), 2>>
    ELSE IF n = 3 THEN <<(s[1] % 16) * 4096 + (s[2] % 64) * 64 + (s[3] % 64), 3>>
    ELSE <<(s[1] % 8) * 262144 + (s[2] % 64) * 4096 + (s[3] % 64) * 64 + (s[4] % 64), 4>>

RECURSIVE ValidString(_)
(* utf8.ValidString *)
ValidString(s) ==
  IF Len(s) = 0 THEN TRUE
  ELSE LET n == EncLen(s) IN
    IF n = 0 THEN FALSE ELSE ValidString(From(s, n))

(* utf8.ValidRune *)
ValidRune(r) ==
  \/ 0 <= r /\ r < SurrogateMin
  \/ SurrogateMax < r /\ r <= MaxRune

(* utf8.EncodeRune: the bytes written *)
EncodeRune(r) ==
  IF r >= 0 /\ r < 128 THEN <<r>>
  ELSE IF r >= 0 /\ r < 2048 THEN <<192 + (r \div 64), 128 + (r % 64)>>
  ELSE IF r < 0 \/ r > MaxRune \/ (r >= SurrogateMin /\ r <= SurrogateMax)
    THEN <<239, 191, 189>>
  ELSE IF r < 65536
    THEN <<224 + (r \div 4096), 128 + ((r \div 64) % 64), 128 + (r % 64)>>
  ELSE <<240 + (r \div 262144), 128 + ((r \div 4096) % 64),
         128 + ((r \div 64) % 64), 128 + (r % 64)>>

(* ---------------- unhex ---------------- *)
unhex(b) ==
  IF 48 <= b /\ b <= 57 THEN [v |-> b - 48, ok |-> TRUE]
  ELSE IF 97 <= b /\ b <= 102 THEN [v |-> b - 97 + 10, ok |-> TRUE]
  ELSE IF 65 <= b /\ b <= 70 THEN [v |-> b - 65 + 10, ok |-> TRUE]
  ELSE [v |-> 0, ok |-> FALSE]

(* v<<4 | x on a 32-bit signed rune (x in 0..15) *)
Shl4Or(v, x) ==
  LET low == (v % 134217728) * 16 + x
  IN IF (v \div 134217728) % 2 = 1 THEN (low - 2147483647) - 1 ELSE low

(* ---------------- UnquoteChar ---------------- *)
CharErr == [value |-> 0, multibyte |-> FALSE, tail |-> <<>>, err |-> TRUE]

CharOk(v, m, t) == [value |-> v, multibyte |-> m, tail |-> t, err |-> FALSE]

RECURSIVE HexDigits(_, _, _, _)
(* the loop of lines 87-94: [v, ok] after reading digits j..n-1 of s *)
HexDigits(s, j, n, v) ==
  IF j >= n THEN [v |-> v, ok |-> TRUE]
  ELSE LET h == unhex(s[j + 1]) IN
    IF ~h.ok THEN [v |-> 0, ok |-> FALSE]
    ELSE HexDigits(s, j + 1, n, Shl4Or(v, h.v))

(* case 'x', 'u', 'U' with s already cut to s[2:] *)
HexEscape(c, s) ==
  LET n == IF c = 120 THEN 2 ELSE IF c = 117 THEN 4 ELSE 8 IN
    IF Len(s) < n THEN CharErr
    ELSE LET h == HexDigits(s, 0, n, 0) IN
      IF ~h.ok THEN CharErr
      ELSE IF c = 120 THEN CharOk(h.v, FALSE, From(s, n))
      ELSE IF ~ValidRune(h.v) THEN CharErr
      ELSE CharOk(h.v, TRUE, From(s, n))

RECURSIVE OctalDigits(_, _, _)
(* the loop of lines 113-120: [v, ok] after reading digits j..1 of s *)
OctalDigits(s, j, v) ==
  IF j >= 2 THEN [v |-> v, ok |-> TRUE]
  ELSE LET x == s[j + 1] - 48 IN
    IF x < 0 \/ x > 7 THEN [v |-> 0, ok |-> FALSE]
    ELSE OctalDigits(s, j + 1, v * 8 + x)

(* mutant of OctalEscape: the bound is written 377 instead of 255 *)
MutOctalEscapeBound(c, s) ==
  IF Len(s) < 2 THEN CharErr
  ELSE LET o == OctalDigits(s, 0, c - 48) IN
    IF ~o.ok THEN CharErr
    ELSE IF o.v > 377 THEN CharErr
    ELSE CharOk(o.v, FALSE, From(s, 2))

(* case '0'..'7' with s already cut to s[2:] *)
OctalEscape(c, s) ==
  IF Len(s) < 2 THEN CharErr
  ELSE LET o == OctalDigits(s, 0, c - 48) IN
    IF ~o.ok THEN CharErr
    ELSE IF o.v > 255 THEN CharErr
    ELSE CharOk(o.v, FALSE, From(s, 2))

(* mutant of QuoteEscape: either escaped quote is accepted *)
MutQuoteEscapeAny(c, q, s) == CharOk(c, FALSE, s)

(* case '\'', '"' *)
QuoteEscape(c, q, s) ==
  IF c # q THEN CharErr ELSE CharOk(c, FALSE, s)

(* the switch of lines 57-138: c = s[1], s = s[2:] *)
Escape(c, q, s) ==
  CASE c = 97 -> CharOk(7, FALSE, s)
    [] c = 98 -> CharOk(8, FALSE, s)
    [] c = 102 -> CharOk(12, FALSE, s)
    [] c = 110 -> CharOk(10, FALSE, s)
    [] c = 114 -> CharOk(13, FALSE, s)
    [] c = 116 -> CharOk(9, FALSE, s)
    [] c = 118 -> CharOk(11, FALSE, s)
    [] c \in {120, 117, 85} -> HexEscape(c, s)
    [] c >= 48 /\ c <= 55 -> OctalEscape(c, s)
    [] c = BS -> CharOk(BS, FALSE, s)
    [] c \in {SQ, DQ} -> QuoteEscape(c, q, s)
    [] OTHER -> CharErr

(* mutant of DecodeChar: a malformed byte is not consumed *)
MutDecodeCharNoAdvance(s) ==
  CharOk(DecodeRuneInString(s)[1], TRUE, From(s, EncLen(s)))

(* the multi-byte case of lines 42-44 *)
DecodeChar(s) ==
  LET d == DecodeRuneInString(s) IN CharOk(d[1], TRUE, From(s, d[2]))

(* the quote check of line 39 *)
IsActiveQuote(c, q) == c = q /\ (q = SQ \/ q = DQ)

UnquoteChar(s, q) ==
  IF Len(s) = 0 THEN CharErr
  ELSE LET c == s[1] IN
    IF IsActiveQuote(c, q) THEN CharErr
    ELSE IF c >= RuneSelf THEN DecodeChar(s)
    ELSE IF c # BS THEN CharOk(c, FALSE, From(s, 1))
    ELSE IF Len(s) <= 1 THEN CharErr
    ELSE Escape(s[2], q, From(s, 2))

(* ---------------- unquote ---------------- *)
Res(o, r, e) == [out |-> o, rem |-> r, err |-> e]

RECURSIVE StripCR(_, _, _, _)
(* the loop of lines 183-187 *)
StripCR(s, i, stop, b) ==
  IF i >= stop THEN b
  ELSE StripCR(s, i + 1, stop, IF s[i + 1] # CR THEN Append(b, s[i + 1]) ELSE b)

(* mutant of RawLiteral: carriage returns are kept *)
MutRawLiteralKeepCR(s, end, unesc) ==
  [out |-> IF ~unesc THEN Slice(s, 0, end) ELSE Slice(s, 1, end - 1),
   rem |-> From(s, end), err |-> FALSE]

(* case '`' of lines 173-195: end is the position after the closing quote *)
RawLiteral(s, end, unesc) ==
  LET o == IF ~unesc THEN Slice(s, 0, end)
           ELSE IF ~contains(Slice(s, 0, end), CR) THEN Slice(s, 1, end - 1)
           ELSE StripCR(s, 1, end - 1, <<>>)
  IN Res(o, From(s, end), FALSE)

(* the condition of line 198 *)
NoEscapes(s, end) == ~contains(Slice(s, 0, end), BS) /\ ~contains(Slice(s, 0, end), LF)

(* mutant of FastValid: a lone malformed byte passes the single-quote check *)
MutFastValidNoErrCheck(s, end, q) ==
  IF q = DQ THEN ValidString(Slice(s, 1, end - 1))
  ELSE 1 + DecodeRuneInString(Slice(s, 1, end - 1))[2] + 1 = end

(* mutant of FastValid: double-quoted interiors are not validated *)
MutFastValidNoUtf8(s, end, q) ==
  IF q = DQ THEN TRUE
  ELSE LET d == DecodeRuneInString(Slice(s, 1, end - 1))
       IN 1 + d[2] + 1 = end /\ (d[1] # RuneError \/ d[2] # 1)

(* valid of lines 199-206 *)
FastValid(s, end, q) ==
  IF q = DQ THEN ValidString(Slice(s, 1, end - 1))
  ELSE LET d == DecodeRuneInString(Slice(s, 1, end - 1))
       IN 1 + d[2] + 1 = end /\ (d[1] # RuneError \/ d[2] # 1)

(* the result of lines 207-213 *)
FastResult(s, end, unesc) ==
  Res(IF unesc THEN Slice(s, 1, end - 1) ELSE Slice(s, 0, end), From(s, end), FALSE)

(* mutant of AppendChar: every rune is appended as one byte *)
MutAppendCharByte(b, r, m) == Append(b, r % 256)

(* lines 233-241 *)
AppendChar(b, r, m) ==
  IF r < RuneSelf \/ ~m THEN Append(b, r % 256) ELSE b \o EncodeRune(r)

(* the loop condition of line 223 *)
LoopCond(s, q) == Len(s) > 0 /\ s[1] # q

(* one iteration of the loop, lines 226-241 *)
LoopBody(s, b, q, unesc) ==
  LET c == UnquoteChar(s, q) IN
    IF s[1] = LF \/ c.err THEN [err |-> TRUE, in |-> s, buf |-> b]
    ELSE [err |-> FALSE, in |-> c.tail,
          buf |-> IF unesc THEN AppendChar(b, c.value, c.multibyte) ELSE b]

(* mutant of Verify: the verbatim span stops before the closing quote *)
MutVerifySpan(s0, s, b, q, unesc) ==
  IF ~(Len(s) > 0 /\ s[1] = q) THEN [out |-> <<>>, rem |-> s0, err |-> TRUE]
  ELSE IF unesc THEN [out |-> b, rem |-> SubSeq(s, 2, Len(s)), err |-> FALSE]
  ELSE [out |-> SubSeq(s0, 1, Len(s0) - Len(s)), rem |-> SubSeq(s, 2, Len(s)), err |-> FALSE]

(* lines 249-258 *)
Verify(s0, s, b, q, unesc) ==
  IF ~(Len(s) > 0 /\ s[1] = q) THEN Res(<<>>, s0, TRUE)
  ELSE IF unesc THEN Res(b, From(s, 1), FALSE)
  ELSE Res(Slice(s0, 0, Len(s0) - Len(From(s, 1))), From(s, 1), FALSE)

RECURSIVE CharLoop(_, _, _, _, _)
(* lines 223-258 from cursor s with buffer b *)
CharLoop(s0, s, b, q, unesc) ==
  IF LoopCond(s, q)
  THEN LET n == LoopBody(s, b, q, unesc) IN
    IF n.err THEN Res(<<>>, s0, TRUE)
    ELSE IF q = SQ THEN Verify(s0, n.in, n.buf, q, unesc)
    ELSE CharLoop(s0, n.in, n.buf, q, unesc)
  ELSE Verify(s0, s, b, q, unesc)

(* lines 216-258 *)
SlowPath(s, unesc) == CharLoop(s, From(s, 1), <<>>, s[1], unesc)

(* position after the first later quote, lines 165-170; 1 when there is none *)
End(s) == index(From(s, 1), s[1]) + 2

(* the fast path of lines 198-214 accepts *)
FastAccepts(s) == NoEscapes(s, End(s)) /\ FastValid(s, End(s), s[1])

unquote(s, unesc) ==
  IF Len(s) < 2 THEN Res(<<>>, s, TRUE)
  ELSE IF End(s) < 2 THEN Res(<<>>, s, TRUE)
  ELSE IF s[1] = BQ THEN RawLiteral(s, End(s), unesc)
  ELSE IF s[1] \in {DQ, SQ}
    THEN IF FastAccepts(s) THEN FastResult(s, End(s), unesc) ELSE SlowPath(s, unesc)
  ELSE Res(<<>>, s, TRUE)

(* unquote returns before the loop of line 223 *)
ReturnsEarly(s) ==
  Len(s) < 2 \/ End(s) < 2 \/ s[1] \notin {DQ, SQ} \/ FastAccepts(s)

QuotedPrefix(s) == [out |-> unquote(s, FALSE).out, err |-> unquote(s, FALSE).err]

(* ---------------- inputs ---------------- *)
Alphabet == {DQ, SQ, BQ, BS, LF, CR, 97, 128}

Utf8Alphabet == {SQ, DQ, 128, 239, 191, 189}

EscAlphabet == {BS, SQ, DQ, 48, 51, 52, 55, 56, 120}

EscPrefixes == {<<BS>>, <<DQ, BS>>, <<SQ, BS>>}

Strings(A, n) == UNION {[1..k -> A] : k \in 0..n}

Inputs ==
  Strings(Alphabet, MaxLen) \cup Strings(Utf8Alphabet, MaxUtf8Len)
    \cup {p \o t : p \in EscPrefixes, t \in Strings(EscAlphabet, MaxEscLen)}

FairAlphabet == {DQ, SQ, BS, 128}

FairEscAlphabet == {BS, DQ, 48, 55, 120}

FairInputs ==
  Strings(FairAlphabet, MaxFairLen)
    \cup {p \o t : p \in EscPrefixes, t \in Strings(FairEscAlphabet, MaxFairEscLen)}

QuoteArgs == {0, SQ, DQ}

(* ---------------- the calls ---------------- *)
InitWith(S) ==
  /\ in0 \in S
  /\ pc = "start"
  /\ unescape = FALSE
  /\ quote = 0
  /\ in = <<>>
  /\ buf = <<>>
  /\ out = <<>>
  /\ rem = <<>>
  /\ err = FALSE
  /\ value = 0
  /\ multibyte = FALSE
  /\ tail = <<>>

Init == InitWith(Inputs)

FairInit == InitWith(FairInputs)

(* QuotedPrefix(in0), lines 13-16 *)
CallQuotedPrefix ==
  /\ pc = "start"
  /\ pc' = "prefixdone"
  /\ out' = QuotedPrefix(in0).out
  /\ err' = QuotedPrefix(in0).err
  /\ UNCHANGED <<in0, unescape, quote, in, buf, rem, value, multibyte, tail>>

(* UnquoteChar(in0, q), lines 32-141 *)
CallUnquoteChar ==
  /\ pc = "start"
  /\ \E q \in QuoteArgs :
       /\ quote' = q
       /\ value' = UnquoteChar(in0, q).value
       /\ multibyte' = UnquoteChar(in0, q).multibyte
       /\ tail' = UnquoteChar(in0, q).tail
       /\ err' = UnquoteChar(in0, q).err
  /\ pc' = "chardone"
  /\ UNCHANGED <<in0, unescape, in, buf, out, rem>>

(* unquote(in0, u) up to the loop of line 223 *)
CallUnquote ==
  /\ pc = "start"
  /\ \E u \in BOOLEAN :
       /\ unescape' = u
       /\ IF ReturnsEarly(in0)
          THEN /\ pc' = "done"
               /\ out' = unquote(in0, u).out
               /\ rem' = unquote(in0, u).rem
               /\ err' = unquote(in0, u).err
               /\ UNCHANGED <<in, quote>>
          ELSE /\ pc' = "loop"
               /\ quote' = in0[1]
               /\ in' = From(in0, 1)
               /\ UNCHANGED <<out, rem, err>>
  /\ UNCHANGED <<in0, buf, value, multibyte, tail>>

(* one iteration of the loop of lines 223-247 *)
LoopIter ==
  /\ pc = "loop"
  /\ LoopCond(in, quote)
  /\ LET n == LoopBody(in, buf, quote, unescape) IN
       IF n.err
       THEN /\ pc' = "done"
            /\ out' = <<>>
            /\ rem' = in0
            /\ err' = TRUE
            /\ UNCHANGED <<in, buf>>
       ELSE /\ pc' = IF quote = SQ THEN "verify" ELSE "loop"
            /\ in' = n.in
            /\ buf' = n.buf
            /\ UNCHANGED <<out, rem, err>>
  /\ UNCHANGED <<in0, unescape, quote, value, multibyte, tail>>

(* lines 249-258, after the loop ended or broke *)
Finish ==
  /\ pc = "verify" \/ (pc = "loop" /\ ~LoopCond(in, quote))
  /\ pc' = "done"
  /\ out' = Verify(in0, in, buf, quote, unescape).out
  /\ rem' = Verify(in0, in, buf, quote, unescape).rem
  /\ err' = Verify(in0, in, buf, quote, unescape).err
  /\ UNCHANGED <<in0, unescape, quote, in, buf, value, multibyte, tail>>

Next == CallQuotedPrefix \/ CallUnquoteChar \/ CallUnquote \/ LoopIter \/ Finish

Spec == Init /\ [][Next]_vars

(* a call that has started runs to its return: the code is synchronous *)
FairSpec ==
  FairInit /\ [][Next]_vars /\ WF_vars(CallUnquote) /\ WF_vars(LoopIter) /\ WF_vars(Finish)

(* the step-wise run and the function agree *)
StepsAgree ==
  pc = "done" => Res(out, rem, err) = unquote(in0, unescape)

(* ---------------- properties ---------------- *)
Prefix(s, k) == SubSeq(s, 1, k)

(* x alone is a complete literal for QuotedPrefix *)
Accepted(x) == ~QuotedPrefix(x).err /\ QuotedPrefix(x).out = x

(* C1: when QuotedPrefix(s) succeeds with span p, p is a prefix of s that    *)
(* starts and ends with the same quote byte, p alone decodes and is wholly  *)
(* consumed, and no shorter prefix of s is a complete literal; it fails     *)
(* exactly when no prefix of s is a complete literal.                       *)
C1_ShortestPrefix ==
  pc = "prefixdone" =>
    /\ ~err =>
         /\ Len(out) >= 2 /\ Len(out) <= Len(in0)
         /\ out = Prefix(in0, Len(out))
         /\ out[1] \in {DQ, SQ, BQ}
         /\ out[Len(out)] = out[1]
         /\ unquote(out, FALSE) = Res(out, <<>>, FALSE)
         /\ ~unquote(out, TRUE).err /\ unquote(out, TRUE).rem = <<>>
         /\ \A k \in 0..(Len(out) - 1) : ~Accepted(Prefix(in0, k))
    /\ err <=> \A k \in 0..Len(in0) : ~Accepted(Prefix(in0, k))

C1_Witness ==
  /\ pc = "prefixdone" /\ ~err
  /\ Len(out) < Len(in0)
  /\ contains(out, BS)
  /\ \E k \in (Len(out) + 1)..Len(in0) : in0[k] = out[1]

(* C2: when unquote succeeds verbatim, the span is a prefix of the input    *)
(* and span followed by remainder is the input; a complete double-quoted    *)
(* literal L followed by any text T gives span L and remainder T.           *)
C2_VerbatimRoundTrip ==
  (pc = "done" /\ ~unescape) =>
    /\ ~err => /\ Len(out) <= Len(in0)
               /\ out = Prefix(in0, Len(out))
               /\ out \o rem = in0
    /\ \A k \in 2..Len(in0) :
         (in0[1] = DQ /\ unquote(Prefix(in0, k), FALSE) = Res(Prefix(in0, k), <<>>, FALSE))
           => (~err /\ out = Prefix(in0, k) /\ rem = From(in0, k))

C2_Witness ==
  /\ pc = "done" /\ ~unescape /\ ~err
  /\ in0[1] = DQ
  /\ contains(out, BS)
  /\ Len(rem) > 0

(* the bytes between the opening quote and the closing quote of an accepted *)
(* call, found from the remainder                                           *)
Interior == Slice(in0, 1, Len(in0) - Len(rem) - 1)

(* s is exactly one character for UnquoteChar: one escape or one scalar *)
OneChar(s, q) == ~UnquoteChar(s, q).err /\ UnquoteChar(s, q).tail = <<>>

(* C3: whenever unquote accepts an input that starts with a single quote,   *)
(* the bytes between the quotes decode to exactly one character; single-    *)
(* quoted input with any other interior is rejected.                        *)
C3_SingleQuoteOneChar ==
  (pc = "done" /\ Len(in0) >= 1 /\ in0[1] = SQ /\ ~err) => OneChar(Interior, SQ)

(* the single-quoted input holds one byte >= 0x80 between its quotes *)
LoneHighByte == Len(in0) >= 3 /\ in0[1] = SQ /\ in0[2] >= 128 /\ in0[3] = SQ

(* the single-quoted input holds EF BF BD between its quotes *)
LiteralFFFD == Len(in0) >= 5 /\ Prefix(in0, 5) = <<SQ, 239, 191, 189, SQ>>

Tentative == Slice(in0, 1, End(in0) - 1)

(* a double-quoted input with a later double quote whose bytes up to that   *)
(* quote are not well-formed UTF-8                                          *)
MalformedDouble ==
  Len(in0) >= 2 /\ in0[1] = DQ /\ End(in0) >= 2 /\ ~ValidString(Tentative)

RECURSIVE Replaced(_)
(* s with every byte that starts no well-formed encoding replaced by the    *)
(* encoding of U+FFFD                                                       *)
Replaced(s) ==
  IF Len(s) = 0 THEN <<>>
  ELSE IF EncLen(s) = 0 THEN <<239, 191, 189>> \o Replaced(From(s, 1))
  ELSE Prefix(s, EncLen(s)) \o Replaced(From(s, EncLen(s)))

ClosingTick == CHOOSE k \in 2..Len(in0) : in0[k] = BQ /\ \A j \in 2..(k - 1) : in0[j] # BQ

NotCR(b) == b # CR

(* C6: input that starts with a backtick and holds a later backtick is      *)
(* accepted; the literal ends at the first later backtick, the remainder    *)
(* is all that follows; unescaped output is the interior without its        *)
(* carriage returns, verbatim output is the span unchanged.                 *)
C6_RawLiteral ==
  (pc = "done" /\ Len(in0) >= 2 /\ in0[1] = BQ /\ \E k \in 2..Len(in0) : in0[k] = BQ) =>
    /\ ~err
    /\ rem = From(in0, ClosingTick)
    /\ unescape => out = SelectSeq(SubSeq(in0, 2, ClosingTick - 1), NotCR)
    /\ ~unescape => out = Prefix(in0, ClosingTick)

C6_Witness ==
  /\ pc = "done" /\ unescape /\ ~err
  /\ Len(in0) >= 2 /\ in0[1] = BQ
  /\ contains(Interior, CR)
  /\ Len(out) >= 1
  /\ Len(out) < Len(Interior)

IsOctal(b) == b >= 48 /\ b <= 55

(* C7: a backslash and three octal digits decode to 64*d1 + 8*d2 + d3 with  *)
(* multibyte false and four bytes consumed when that is at most 255;        *)
(* ErrSyntax when it exceeds 255 or fewer than three octal digits follow.   *)
C7_Octal ==
  (pc = "chardone" /\ Len(in0) >= 2 /\ in0[1] = BS /\ IsOctal(in0[2])) =>
    IF Len(in0) >= 4 /\ IsOctal(in0[3]) /\ IsOctal(in0[4])
    THEN LET v == 64 * (in0[2] - 48) + 8 * (in0[3] - 48) + (in0[4] - 48)
         IN IF v <= 255
            THEN ~err /\ value = v /\ ~multibyte /\ tail = From(in0, 4)
            ELSE err
    ELSE err

C7_Witness ==
  /\ pc = "chardone" /\ ~err
  /\ Len(in0) >= 5
  /\ Prefix(in0, 4) = <<BS, 51, 55, 55>>
  /\ value = 255
  /\ Len(tail) = 1

(* C8: UnquoteChar with quote q in {', "}: q unescaped at s[0] is           *)
(* ErrSyntax, backslash q decodes to q, backslash and the other quote is    *)
(* ErrSyntax, the other quote unescaped is itself; with quote 0 both        *)
(* escaped quotes are ErrSyntax and both unescaped quotes are themselves,   *)
(* with multibyte false and a tail one byte shorter.                        *)
C8_QuoteArgument ==
  (pc = "chardone" /\ Len(in0) >= 1) =>
    /\ (in0[1] \in {SQ, DQ}) =>
         IF in0[1] = quote THEN err
         ELSE ~err /\ value = in0[1] /\ ~multibyte /\ tail = From(in0, 1)
    /\ (Len(in0) >= 2 /\ in0[1] = BS /\ in0[2] \in {SQ, DQ}) =>
         IF in0[2] = quote
         THEN ~err /\ value = quote /\ ~multibyte /\ tail = From(in0, 2)
         ELSE err

C8_Witness ==
  /\ pc = "chardone" /\ ~err
  /\ quote = SQ
  /\ Len(in0) >= 3
  /\ Prefix(in0, 2) = <<BS, SQ>>
  /\ value = SQ
  /\ Len(tail) >= 1

(* a quoted input whose span up to the first later quote of its kind has    *)
(* no backslash and no newline                                              *)
PlainQuoted ==
  Len(in0) >= 2 /\ in0[1] \in {DQ, SQ} /\ End(in0) >= 2 /\ NoEscapes(in0, End(in0))

(* the fast path alone: its result when it accepts, ErrSyntax otherwise *)
FastOnly(s, unesc) ==
  IF FastValid(s, End(s), s[1]) THEN FastResult(s, End(s), unesc) ELSE Res(<<>>, s, TRUE)

IsSuffix(s, t) == Len(s) <= Len(t) /\ s = From(t, Len(t) - Len(s))

(* C10: a successful UnquoteChar returns a strictly shorter suffix of its   *)
(* input; each loop iteration of unquote that does not fail shortens the    *)
(* cursor; the cursor stays inside the input; every call ends with a        *)
(* result or ErrSyntax.                                                     *)
C10_Progress ==
  /\ []((pc = "chardone" /\ ~err) => (Len(tail) < Len(in0) /\ IsSuffix(tail, in0)))
  /\ []((pc \in {"loop", "verify"}) => (Len(in) < Len(in0) /\ IsSuffix(in, in0)))
  /\ [][(pc = "loop" /\ pc' \in {"loop", "verify"}) => Len(in') < Len(in)]_vars
  /\ []((pc = "done" /\ ~err) => IsSuffix(rem, in0))
  /\ ((pc \in {"start", "loop", "verify"}) ~> (pc \in {"done", "chardone", "prefixdone"}))

C10_Witness ==
  /\ pc = "done" /\ ~err
  /\ in0[1] = DQ
  /\ contains(in0, BS)
  /\ contains(in0, 128)
  /\ Len(in0) - Len(in) >= 4

====
